---- MODULE Spec2Model ----
(***************************************************************************)
(* Model of OBSClient (obs-client.ts): the connection lifecycle with its   *)
(* retry loop and background reconnect, the command serializer and the     *)
(* operations built on it.  Every await of the source is a point where    *)
(* another task, a timer or a transport event may run, so every action    *)
(* below is one synchronous run of code between two awaits.                *)
(***************************************************************************)
EXTENDS Integers, Sequences, FiniteSets, TLC

\* ------------------------------------------------------------------ bounds
NumCallers == 2          \* tasks of the host program that call the client
MaxTimers == 1           \* reconnect timers that may be pending or running

\* ------------------------------------------------------- program constants
maxRetries == 10

baseDelay == 1000

maxDelay == 30000

Callers == 1..NumCallers
BgTasks == (NumCallers + 1)..(NumCallers + MaxTimers)
Tasks == Callers \cup BgTasks

\* Error messages a failed handshake may carry; the code classifies them by
\* the substrings they contain.
HandshakeErrors == {"connect ECONNREFUSED", "Authentication failed",
                    "socket hang up", "ECONNREFUSED by auth proxy"}

IncludesECONNREFUSED(m) == m \in {"connect ECONNREFUSED", "ECONNREFUSED by auth proxy"}

IncludesAuth(m) == m \in {"Authentication failed", "ECONNREFUSED by auth proxy"}

ClassifyNoAuth(m) == IF IncludesECONNREFUSED(m) THEN "refused" ELSE "other"

\* if / else-if / else of the catch block
Classify(m) ==
    IF IncludesECONNREFUSED(m) THEN "refused"
    ELSE IF IncludesAuth(m) THEN "auth"
    ELSE "other"

\* ------------------------------------------------ configuration and inputs
\* (process.env.OBS_SAFE_SCENES || 'StartingSoon,Main').split(',').map(trim)
SAFE_SCENES_LIST == <<"StartingSoon", "Main">>

SAFE_SCENES == {SAFE_SCENES_LIST[i] : i \in DOMAIN SAFE_SCENES_LIST}

\* result.scenes.map((s) => s.sceneName) for the answers r to GetSceneList
SceneList(r) ==
    CASE r = "scenes" -> <<"StartingSoon", "Main", "BRB">>
      [] r = "fewScenes" -> <<"BRB">>
      [] OTHER -> << >>

\* inputs.inputs.map((i) => i.inputName) for the answer to GetInputList
InputNames == <<"Webcam Mic", "Game Audio">>

\* fallback candidates of setMicMute, in order
MicNames == <<"Mic/Aux", "Blue Yeti", "Microphone", "Mic", "Audio Input Capture",
              "Desktop Audio">>

Serialized == {"startStream", "stopStream", "startRecording", "stopRecording",
               "setScene", "setMicMute", "setSourceVisibility"}

Reads == {"getCurrentScene", "getSceneList"}

\* arguments the callers pass: a scene name, an input name ("none": omitted)
Args(k) ==
    CASE k = "setScene" -> {"Main", "BRB", "Nope"}
      [] k = "setMicMute" -> {"none", "Headset"}
      [] OTHER -> {"none"}

RpcMethods == {"GetStreamStatus", "StartStream", "StopStream", "GetRecordStatus",
               "StartRecord", "StopRecord", "GetCurrentProgramScene", "GetSceneList",
               "SetCurrentProgramScene", "SetInputMute", "GetInputList",
               "GetSceneItemId", "SetSceneItemEnabled"}

\* what the transport may answer to this.obs.call(m): a value, or a rejection
\* ("error"; "NotFound": a rejection whose message contains NotFound / 600)
Replies(m) ==
    CASE m \in {"GetStreamStatus", "GetRecordStatus"} -> {"active", "inactive", "error"}
      [] m = "GetCurrentProgramScene" -> {"Main", "BRB", "error"}
      [] m = "GetSceneList" -> {"scenes", "fewScenes", "error"}
      [] m = "GetInputList" -> {"inputs", "error"}
      [] m \in {"GetSceneItemId", "SetSceneItemEnabled"} ->
             {"ok", "NotFound", "code 600", "error"}
      [] OTHER -> {"ok", "error"}

\* What an invocation delivers to its caller.  A returned { success, message }
\* is its success flag, the fixed text of the message (val) and what the
\* template interpolates: the names it is about and the list it enumerates.
NoResult == [st |-> "none", val |-> "none", err |-> "none", success |-> "none",
             about |-> << >>, listed |-> << >>]

Return(v) == [NoResult EXCEPT !.st = "return", !.val = v]

Throw(v, e) == [NoResult EXCEPT !.st = "throw", !.val = v, !.err = e]

\* return { success: true, message }
Done(v, names) == [NoResult EXCEPT !.st = "return", !.val = v, !.success = "true",
                                   !.about = names]

\* return { success: false, message }
Refused(v, names, list) ==
    [NoResult EXCEPT !.st = "return", !.val = v, !.success = "false",
                     !.about = names, !.listed = list]

\* interface OBSStatus; before getStatus() has returned one, every field "none"
NoSnapshot == [connected |-> "none", streaming |-> "none", recording |-> "none",
               currentScene |-> "none", availableScenes |-> << >>,
               streamTimecode |-> "none", recordTimecode |-> "none",
               cpuUsage |-> "none", memoryUsage |-> "none", fps |-> "none"]

\* the answers to the five calls of getStatus(); before any, "none"
NoReplies == [stream |-> "none", record |-> "none", scene |-> "none", list |-> "none",
              stats |-> "none"]

\* the controller before any command: no output running, "Main" on program
Studio0 == [streaming |-> FALSE, recording |-> FALSE, scene |-> "Main"]

VARIABLES
    connected,      \* this.connected
    connecting,     \* this.connecting
    retryCount,     \* this.retryCount
    commandQueue,   \* this.commandQueue: the task whose promise it is (0: a resolved one)
    SAFE_MODE,      \* the safe-mode flag read from the environment at start
    pc,             \* per task: where its current invocation is suspended
    kind,           \* per task: the operation it has invoked
    arg,            \* per task: the argument of that operation
    prev,           \* per task: the promise its serialize() awaits (0: a resolved one)
    idx,            \* per task: position of setMicMute in its list of candidates
    hs,             \* per task: handshakes issued so far by its connect() invocation
    soft,           \* per task: handshake failures of its invocation that were retried
    slept,          \* per task: the last delay its invocation slept or sleeps, in ms
    order,          \* history: the serialize() calls not yet completed, in call order
    link,           \* history: "up" iff the last handshake succeeded and no
                    \* transport event or disconnect() happened since
    authFailed,     \* history: a connect() has thrown AUTH_FAILED and no caller
                    \* has invoked connect() since
    closedByCaller, \* history: the teardown of a disconnect() has completed and
                    \* no caller has invoked connect() since
    ctl,            \* the controller at the far end: its outputs and program scene
    got,            \* per task: the answers its getStatus() batch has received so far
    seen,           \* history, per task: the states the controller has been in
                    \* since the task's pending getStatus() issued its calls
    ev              \* observation: what the last step consumed, issued and delivered

vars == <<connected, connecting, retryCount, commandQueue, SAFE_MODE, pc, kind, arg,
          prev, idx, hs, soft, slept, order, link, authFailed, closedByCaller,
          ctl, got, seen, ev>>

connVars == <<connected, connecting, retryCount, link>>
opVars == <<commandQueue, kind, arg, prev, idx, order>>
ctlVars == <<ctl, got, seen>>

\* What one step did: the task that ran (0: the transport), the code that ran
\* (act) and for which operation (op), the reply it consumed (in) and the call
\* that reply answers (of), the RPC (rpc) and handshake (hsk) it issued, the
\* outcome it delivered to the caller of the invocation (NoResult while the
\* invocation goes on), for connect() the handshakes issued so far (n), the
\* name handed to the issued RPC (par), the snapshot getStatus() returned
\* (snap), the answers of the controller it was built from (all) and whether
\* a transport event ended a session that was connected (drop).
E0 == [task |-> 0, act |-> "init", op |-> "none", of |-> "none", in |-> "none",
       rpc |-> "none", hsk |-> FALSE, out |-> NoResult, n |-> 0, par |-> "none",
       snap |-> NoSnapshot, all |-> NoReplies, drop |-> FALSE]

Init ==
    /\ connected = FALSE
    /\ connecting = FALSE
    /\ retryCount = 0
    /\ commandQueue = 0
    /\ SAFE_MODE \in BOOLEAN
    /\ pc = [t \in Tasks |-> "idle"]
    /\ kind = [t \in Tasks |-> "none"]
    /\ arg = [t \in Tasks |-> "none"]
    /\ prev = [t \in Tasks |-> 0]
    /\ idx = [t \in Tasks |-> 0]
    /\ hs = [t \in Tasks |-> 0]
    /\ soft = [t \in Tasks |-> 0]
    /\ slept = [t \in Tasks |-> 0]
    /\ order = << >>
    /\ link = "down"
    /\ authFailed = FALSE
    /\ closedByCaller = FALSE
    /\ ctl = Studio0
    /\ got = [t \in Tasks |-> NoReplies]
    /\ seen = [t \in Tasks |-> {}]
    /\ ev = E0

\* --------------------------------------------------------------- connect()

\* values of Math.random(), which lies in [0, 1), in hundredths
Randoms == {0, 50, 99}

RECURSIVE Pow2(_)
\* Math.pow(2, n)
Pow2(n) == IF n <= 0 THEN 1 ELSE 2 * Pow2(n - 1)

\* Math.min(this.baseDelay * Math.pow(2, this.retryCount - 1), this.maxDelay)
BackoffDelay(rc) ==
    IF baseDelay * Pow2(rc - 1) < maxDelay THEN baseDelay * Pow2(rc - 1) ELSE maxDelay

\* delay * (0.7 + Math.random() * 0.6), in whole ms
Jittered(delay, rnd) == (delay * (70 + (rnd * 60) \div 100)) \div 100

ConnectGuardConnectedOnly == connected

\* if (this.connected || this.connecting) return;
ConnectGuard == connected \/ connecting

\* while (this.retryCount <= this.maxRetries)
LoopCond(rc) == rc <= maxRetries

\* if (this.retryCount > this.maxRetries) : the retries are used up
Exhausted(rc) == rc > maxRetries

\* The synchronous start of connect() by task t, up to its first await.
ConnectEnter(t, a) ==
    /\ soft' = [soft EXCEPT ![t] = 0]
    /\ slept' = [slept EXCEPT ![t] = 0]
    /\ IF ConnectGuard
       THEN /\ pc' = [pc EXCEPT ![t] = "idle"]
            /\ hs' = [hs EXCEPT ![t] = 0]
            /\ ev' = [E0 EXCEPT !.task = t, !.act = a, !.op = "connect",
                                !.out = Return("void")]
            /\ UNCHANGED connVars
       ELSE /\ connecting' = TRUE
            /\ IF LoopCond(retryCount)
               THEN /\ pc' = [pc EXCEPT ![t] = "handshake"]
                    /\ hs' = [hs EXCEPT ![t] = 1]
                    /\ ev' = [E0 EXCEPT !.task = t, !.act = a, !.op = "connect",
                                        !.hsk = TRUE, !.n = 1]
               ELSE /\ pc' = [pc EXCEPT ![t] = "idle"]
                    /\ hs' = [hs EXCEPT ![t] = 0]
                    /\ ev' = [E0 EXCEPT !.task = t, !.act = a, !.op = "connect",
                                        !.out = Return("void")]
            /\ UNCHANGED <<connected, retryCount, link>>
    /\ authFailed' = IF a = "connect" THEN FALSE ELSE authFailed
    /\ closedByCaller' = IF a = "connect" THEN FALSE ELSE closedByCaller
    /\ UNCHANGED <<SAFE_MODE, ctlVars, opVars>>

ConnectCall(t) ==
    /\ t \in Callers
    /\ pc[t] = "idle"
    /\ ConnectEnter(t, "connect")

RetryCountKept(rc) == rc

\* this.retryCount = 0;
RetryCountReset(rc) == 0

\* await this.obs.connect(...) resolved
HandshakeOk(t) ==
    /\ pc[t] = "handshake"
    /\ connected' = TRUE
    /\ connecting' = FALSE
    /\ retryCount' = RetryCountReset(retryCount)
    /\ link' = "up"
    /\ pc' = [pc EXCEPT ![t] = "idle"]
    /\ hs' = [hs EXCEPT ![t] = 0]
    /\ soft' = [soft EXCEPT ![t] = 0]
    /\ slept' = [slept EXCEPT ![t] = 0]
    /\ ev' = [E0 EXCEPT !.task = t, !.act = "handshakeOk", !.op = "connect",
                        !.of = "connect", !.in = "ok", !.out = Return("void"),
                        !.n = hs[t]]
    /\ UNCHANGED <<SAFE_MODE, ctlVars, closedByCaller, authFailed, opVars>>

\* await this.obs.connect(...) rejected with message m: the catch block;
\* rnd is what Math.random() yields, in hundredths
HandshakeFail(t, m, rnd) ==
    /\ pc[t] = "handshake"
    /\ retryCount' = retryCount + 1
    /\ link' = "down"
    /\ IF Classify(m) = "auth"
       THEN /\ connecting' = FALSE
            /\ pc' = [pc EXCEPT ![t] = "idle"]
            /\ hs' = [hs EXCEPT ![t] = 0]
            /\ soft' = [soft EXCEPT ![t] = 0]
            /\ slept' = [slept EXCEPT ![t] = 0]
            /\ ev' = [E0 EXCEPT !.task = t, !.act = "handshakeFail", !.op = "connect",
                                !.of = "connect", !.in = m, !.n = hs[t],
                                !.out = Throw("AUTH_FAILED", "none")]
            /\ authFailed' = TRUE
       ELSE IF Exhausted(retryCount')
       THEN /\ connecting' = FALSE
            /\ pc' = [pc EXCEPT ![t] = "idle"]
            /\ hs' = [hs EXCEPT ![t] = 0]
            /\ soft' = [soft EXCEPT ![t] = 0]
            /\ slept' = [slept EXCEPT ![t] = 0]
            /\ ev' = [E0 EXCEPT !.task = t, !.act = "handshakeFail", !.op = "connect",
                                !.of = "connect", !.in = m, !.n = hs[t],
                                !.out = Throw("CONNECT_EXHAUSTED", m)]
            /\ UNCHANGED authFailed
       ELSE /\ pc' = [pc EXCEPT ![t] = "sleep"]
            /\ soft' = [soft EXCEPT ![t] = soft[t] + 1]
            /\ slept' = [slept EXCEPT ![t] = Jittered(BackoffDelay(retryCount'), rnd)]
            /\ ev' = [E0 EXCEPT !.task = t, !.act = "handshakeFail", !.op = "connect",
                                !.of = "connect", !.in = m, !.n = hs[t]]
            /\ UNCHANGED <<connecting, hs, authFailed>>
    /\ UNCHANGED <<connected, SAFE_MODE, ctlVars, closedByCaller, opVars>>

\* await this.sleep(jitter) resolved: back to the loop condition
SleepDone(t) ==
    /\ pc[t] = "sleep"
    /\ IF LoopCond(retryCount)
       THEN /\ pc' = [pc EXCEPT ![t] = "handshake"]
            /\ hs' = [hs EXCEPT ![t] = hs[t] + 1]
            /\ ev' = [E0 EXCEPT !.task = t, !.act = "sleepDone", !.op = "connect",
                                !.hsk = TRUE, !.n = hs[t] + 1]
            /\ UNCHANGED <<soft, slept>>
       ELSE /\ pc' = [pc EXCEPT ![t] = "idle"]
            /\ hs' = [hs EXCEPT ![t] = 0]
            /\ soft' = [soft EXCEPT ![t] = 0]
            /\ slept' = [slept EXCEPT ![t] = 0]
            /\ ev' = [E0 EXCEPT !.task = t, !.act = "sleepDone", !.op = "connect",
                                !.out = Return("void"), !.n = hs[t]]
    /\ UNCHANGED <<connVars, SAFE_MODE, ctlVars, closedByCaller, authFailed, opVars>>

\* --------------------------------------------- transport events and timers

ReconnectAlways == TRUE

\* if (!this.connecting) : a reconnect timer is set
ReconnectWanted == ~connecting

\* setTimeout(() => this.connect().catch(() => {}), 3000)
ScheduleReconnect ==
    IF ReconnectWanted
    THEN \E b \in BgTasks :
            /\ pc[b] = "idle"
            /\ pc' = [pc EXCEPT ![b] = "timer"]
    ELSE UNCHANGED pc

\* this.obs.on('ConnectionClosed', ...)
ConnectionClosed ==
    /\ connected' = FALSE
    /\ link' = "down"
    /\ ScheduleReconnect
    /\ ev' = [E0 EXCEPT !.act = "ConnectionClosed", !.drop = connected]
    /\ UNCHANGED <<connecting, retryCount, hs, soft, slept, SAFE_MODE, ctlVars, closedByCaller, authFailed, opVars>>

ErrorHandlerKeeps == connected

\* what the ConnectionError handler leaves in this.connected
ErrorHandlerConnected == FALSE

\* this.obs.on('ConnectionError', ...)
ConnectionError ==
    /\ connected' = ErrorHandlerConnected
    /\ link' = "down"
    /\ ev' = [E0 EXCEPT !.act = "ConnectionError", !.drop = connected]
    /\ UNCHANGED <<connecting, retryCount, pc, hs, soft, slept, SAFE_MODE, ctlVars, closedByCaller, authFailed, opVars>>

\* the reconnect timer fires: () => this.connect().catch(() => {})
TimerFire(b) ==
    /\ b \in BgTasks
    /\ pc[b] = "timer"
    /\ ConnectEnter(b, "timer")

\* ------------------------------------------------------------ disconnect()

TeardownAlways == TRUE

\* if (this.connected) { await this.obs.disconnect(); ... }
TeardownNeeded == connected

DisconnectCall(t) ==
    /\ t \in Callers
    /\ pc[t] = "idle"
    /\ IF TeardownNeeded
       THEN /\ pc' = [pc EXCEPT ![t] = "disconnecting"]
            /\ ev' = [E0 EXCEPT !.task = t, !.act = "disconnect", !.op = "disconnect"]
       ELSE /\ pc' = [pc EXCEPT ![t] = "idle"]
            /\ ev' = [E0 EXCEPT !.task = t, !.act = "disconnect", !.op = "disconnect",
                                !.out = Return("void")]
    /\ UNCHANGED <<connVars, hs, soft, slept, SAFE_MODE, ctlVars, closedByCaller, authFailed, opVars>>

\* await this.obs.disconnect() resolved
DisconnectDone(t) ==
    /\ pc[t] = "disconnecting"
    /\ connected' = FALSE
    /\ link' = "down"
    /\ pc' = [pc EXCEPT ![t] = "idle"]
    /\ ev' = [E0 EXCEPT !.task = t, !.act = "disconnectDone", !.op = "disconnect",
                        !.of = "disconnect", !.in = "ok", !.out = Return("void")]
    /\ closedByCaller' = TRUE
    /\ UNCHANGED <<connecting, retryCount, hs, soft, slept, SAFE_MODE, ctlVars, authFailed, opVars>>

\* ------------------------------------------------------------- serialize()

PrevSettledNoWait(t) == TRUE

\* await prev : the promise the invocation awaits is settled
PrevSettled(t) == prev[t] = 0

ReleasedOnSuccess(t, o) == o.st # "throw"

\* finally { resolve(undefined) } : runs however fn() ended (outcome o)
Released(t, o) == TRUE

\* the promise of t is resolved: whoever awaits it, or would, sees it settled
Settle(t, o) ==
    /\ order' = SelectSeq(order, LAMBDA q : q # t)
    /\ IF Released(t, o)
       THEN /\ prev' = [q \in Tasks |-> IF q = t \/ prev[q] = t THEN 0 ELSE prev[q]]
            /\ commandQueue' = IF commandQueue = t THEN 0 ELSE commandQueue
       ELSE /\ prev' = [prev EXCEPT ![t] = 0]
            /\ UNCHANGED commandQueue

EnsureConnectedNoCheck == TRUE

\* if (!this.connected) throw new Error('NOT_CONNECTED: ...')
EnsureConnected == connected

\* ------------------------------------------------------- the operations

Go(m, i) == [rpc |-> m, idx |-> i, out |-> NoResult]

End(o) == [rpc |-> "none", idx |-> 0, out |-> o]

CandidatesFallbackOnly(a) == MicNames

\* const micNames = inputName ? [inputName] : [ ...six names... ]
Candidates(a) == IF a # "none" THEN <<a>> ELSE MicNames

RpcParamNone(k, a, s) == "none"

\* the name handed to the RPC that step s of operation k issues
RpcParam(k, a, s) ==
    CASE s.rpc = "SetInputMute" -> Candidates(a)[s.idx]
      [] s.rpc = "SetCurrentProgramScene" -> a
      [] OTHER -> "none"

\* the first this.obs.call of operation k, issued right after ensureConnected()
FirstRpc(k, safe) ==
    CASE k = "startStream" -> IF safe THEN Go("GetCurrentProgramScene", 0)
                              ELSE Go("GetStreamStatus", 0)
      [] k = "stopStream" -> Go("GetStreamStatus", 0)
      [] k \in {"startRecording", "stopRecording"} -> Go("GetRecordStatus", 0)
      [] k \in {"setScene", "getSceneList"} -> Go("GetSceneList", 0)
      [] k = "setMicMute" -> Go("SetInputMute", 1)
      [] k = "setSourceVisibility" -> Go("GetSceneItemId", 0)
      [] k = "getCurrentScene" -> Go("GetCurrentProgramScene", 0)

SceneAllowedAlways(scene) == TRUE

\* SAFE_SCENES.includes(scene)
SceneAllowed(scene) == scene \in SAFE_SCENES

StreamActiveIgnored(r) == FALSE

\* status.outputActive in startStream()
StreamActive(r) == r = "active"

OutputActiveAlways(r) == TRUE

\* status.outputActive in stopStream(), startRecording() and stopRecording()
OutputActive(r) == r = "active"

\* startStream() after the reply r to its call m
StartStreamStep(m, r) ==
    IF r = "error" THEN End(Throw("RPC_ERROR", r))
    ELSE CASE m = "GetCurrentProgramScene" ->
                 IF ~SceneAllowed(r)
                 THEN End(Refused("SAFE_MODE: Refusing to start stream", <<r>>,
                                  SAFE_SCENES_LIST))
                 ELSE Go("GetStreamStatus", 0)
           [] m = "GetStreamStatus" ->
                 IF StreamActive(r) THEN End(Done("Stream already active", << >>))
                 ELSE Go("StartStream", 0)
           [] m = "StartStream" -> End(Done("Stream started", << >>))

StopStreamStep(m, r) ==
    IF r = "error" THEN End(Throw("RPC_ERROR", r))
    ELSE CASE m = "GetStreamStatus" ->
                 IF ~OutputActive(r) THEN End(Done("Stream already stopped", << >>))
                 ELSE Go("StopStream", 0)
           [] m = "StopStream" -> End(Done("Stream stopped", << >>))

StartRecordingStep(m, r) ==
    IF r = "error" THEN End(Throw("RPC_ERROR", r))
    ELSE CASE m = "GetRecordStatus" ->
                 IF OutputActive(r) THEN End(Done("Recording already active", << >>))
                 ELSE Go("StartRecord", 0)
           [] m = "StartRecord" -> End(Done("Recording started", << >>))

StopRecordingStep(m, r) ==
    IF r = "error" THEN End(Throw("RPC_ERROR", r))
    ELSE CASE m = "GetRecordStatus" ->
                 IF ~OutputActive(r) THEN End(Done("Recording already stopped", << >>))
                 ELSE Go("StopRecord", 0)
           [] m = "StopRecord" -> End(Done("Recording stopped", << >>))

SceneExistsAlways(scenes, a) == TRUE

\* scenes.includes(sceneName)
SceneExists(scenes, a) == \E i \in DOMAIN scenes : scenes[i] = a

SetSceneStep(a, m, r) ==
    IF r = "error" THEN End(Throw("RPC_ERROR", r))
    ELSE CASE m = "GetSceneList" ->
                 IF ~SceneExists(SceneList(r), a)
                 THEN End(Refused("SCENE_NOT_FOUND", <<a>>, SceneList(r)))
                 ELSE Go("SetCurrentProgramScene", 0)
           [] m = "SetCurrentProgramScene" -> End(Done("Switched to scene", <<a>>))

AcceptedNever(r) == FALSE

\* the awaited SetInputMute did not throw
Accepted(r) == r = "ok"

\* The flag `mute` is handed through to the call and to the message; it
\* decides nothing in the operation.
SetMicMuteStep(a, m, i, r) ==
    CASE m = "SetInputMute" ->
             IF Accepted(r) THEN End(Done("muted / unmuted", <<Candidates(a)[i]>>))
             ELSE IF i < Len(Candidates(a)) THEN Go("SetInputMute", i + 1)
             ELSE Go("GetInputList", 0)
      [] m = "GetInputList" ->
             IF r = "error" THEN End(Throw("RPC_ERROR", r))
             ELSE End(Refused("MIC_NOT_FOUND", Candidates(a), InputNames))

IsNotFoundAny(r) == TRUE

\* message.includes('NotFound') || message.includes('600')
IsNotFound(r) == r \in {"NotFound", "code 600"}

\* one try block around both calls: a rejection of either lands in the catch
SetSourceVisibilityStep(m, r) ==
    IF r # "ok"
    THEN IF IsNotFound(r) THEN End(Refused("SOURCE_NOT_FOUND", << >>, << >>))
         ELSE End(Throw("RPC_ERROR", r))
    ELSE CASE m = "GetSceneItemId" -> Go("SetSceneItemEnabled", 0)
           [] m = "SetSceneItemEnabled" -> End(Done("visibility set", << >>))

\* getCurrentScene() and getSceneList() called on their own
ReadStep(m, r) ==
    IF r = "error" THEN End(Throw("RPC_ERROR", r)) ELSE End(Return(r))

OpStep(k, a, m, i, r) ==
    CASE k = "startStream" -> StartStreamStep(m, r)
      [] k = "stopStream" -> StopStreamStep(m, r)
      [] k = "startRecording" -> StartRecordingStep(m, r)
      [] k = "stopRecording" -> StopRecordingStep(m, r)
      [] k = "setScene" -> SetSceneStep(a, m, r)
      [] k = "setMicMute" -> SetMicMuteStep(a, m, i, r)
      [] k = "setSourceVisibility" -> SetSourceVisibilityStep(m, r)
      [] k \in Reads -> ReadStep(m, r)

\* const prev = this.commandQueue;
AwaitedPromise == commandQueue

QueueNotReplaced(t) == commandQueue

\* this.commandQueue = new Promise((r) => (resolve = r));
NewQueue(t) == t

\* a caller invokes a serialized operation: serialize() up to `await prev`.
\* serialize() does not look at fn, so which operation was submitted shows
\* when fn() runs, in Begin.
Call(t) ==
    /\ t \in Callers
    /\ pc[t] = "idle"
    /\ prev' = [prev EXCEPT ![t] = AwaitedPromise]
    /\ commandQueue' = NewQueue(t)
    /\ pc' = [pc EXCEPT ![t] = "queued"]
    /\ order' = Append(order, t)
    /\ ev' = [E0 EXCEPT !.task = t, !.act = "call"]
    /\ UNCHANGED <<connVars, SAFE_MODE, ctlVars, closedByCaller, authFailed, kind, arg, idx, hs, soft, slept>>

\* `await prev` is over: fn() of operation k with argument a runs up to its
\* first await
Begin(t, k, a) ==
    /\ pc[t] = "queued"
    /\ k \in Serialized
    /\ a \in Args(k)
    /\ PrevSettled(t)
    /\ IF EnsureConnected
       THEN LET s == FirstRpc(k, SAFE_MODE) IN
            /\ pc' = [pc EXCEPT ![t] = s.rpc]
            /\ kind' = [kind EXCEPT ![t] = k]
            /\ arg' = [arg EXCEPT ![t] = a]
            /\ idx' = [idx EXCEPT ![t] = s.idx]
            /\ ev' = [E0 EXCEPT !.task = t, !.act = "begin", !.op = k, !.rpc = s.rpc,
                                !.par = RpcParam(k, a, s)]
            /\ UNCHANGED <<commandQueue, prev, order>>
       ELSE /\ pc' = [pc EXCEPT ![t] = "idle"]
            /\ Settle(t, Throw("NOT_CONNECTED", "none"))
            /\ ev' = [E0 EXCEPT !.task = t, !.act = "begin", !.op = k,
                                !.out = Throw("NOT_CONNECTED", "none")]
            /\ UNCHANGED <<kind, arg, idx>>
    /\ UNCHANGED <<connVars, SAFE_MODE, ctlVars, closedByCaller, authFailed, hs, soft, slept>>

\* a caller invokes getCurrentScene() or getSceneList() directly
ReadCall(t, k) ==
    /\ t \in Callers
    /\ pc[t] = "idle"
    /\ k \in Reads
    /\ IF EnsureConnected
       THEN /\ pc' = [pc EXCEPT ![t] = FirstRpc(k, SAFE_MODE).rpc]
            /\ kind' = [kind EXCEPT ![t] = k]
            /\ ev' = [E0 EXCEPT !.task = t, !.act = "read", !.op = k,
                                !.rpc = FirstRpc(k, SAFE_MODE).rpc]
       ELSE /\ ev' = [E0 EXCEPT !.task = t, !.act = "read", !.op = k,
                                !.out = Throw("NOT_CONNECTED", "none")]
            /\ UNCHANGED <<pc, kind>>
    /\ UNCHANGED <<connVars, SAFE_MODE, ctlVars, closedByCaller, authFailed, commandQueue, arg, prev, idx, order, hs, soft, slept>>

ConnectedUnlessRejected(c, r) == c /\ r \notin {"error", "NotFound", "code 600"}

\* this.connected after an operation has consumed the reply r: no operation
\* assigns it, on any path
ConnectedAfter(c, r) == c

\* the transport answers the pending this.obs.call of t with r, and the
\* operation runs on to its next await or to its end
Resume(t, r) ==
    /\ pc[t] \in RpcMethods
    /\ r \in Replies(pc[t])
    /\ connected' = ConnectedAfter(connected, r)
    /\ LET s == OpStep(kind[t], arg[t], pc[t], idx[t], r) IN
       /\ idx' = [idx EXCEPT ![t] = s.idx]
       /\ ev' = [E0 EXCEPT !.task = t, !.act = "rpcReturn", !.op = kind[t],
                           !.of = pc[t], !.in = r, !.rpc = s.rpc, !.out = s.out,
                           !.par = RpcParam(kind[t], arg[t], s)]
       /\ IF s.rpc # "none"
          THEN /\ pc' = [pc EXCEPT ![t] = s.rpc]
               /\ UNCHANGED <<commandQueue, kind, arg, prev, order>>
          ELSE /\ pc' = [pc EXCEPT ![t] = "idle"]
               /\ kind' = [kind EXCEPT ![t] = "none"]
               /\ arg' = [arg EXCEPT ![t] = "none"]
               /\ IF kind[t] \in Serialized
                  THEN Settle(t, s.out)
                  ELSE UNCHANGED <<commandQueue, prev, order>>
    /\ UNCHANGED <<connecting, retryCount, link, SAFE_MODE, authFailed, closedByCaller,
                   hs, soft, slept>>

\* the same, whatever the controller is doing
RpcReturn(t, r) ==
    /\ Resume(t, r)
    /\ UNCHANGED ctlVars

\* -------------------------------------------------------------- getStatus()

\* what the five calls under Promise.all may be answered
StatusReplies ==
    [stream : Replies("GetStreamStatus"), record : Replies("GetRecordStatus"),
     scene : Replies("GetCurrentProgramScene"), list : Replies("GetSceneList"),
     stats : Replies("GetStats")]

\* the snapshot returned when this.connected is false
DisconnectedSnapshot ==
    [connected |-> "false", streaming |-> "false", recording |-> "false",
     currentScene |-> "N/A", availableScenes |-> << >>,
     streamTimecode |-> "null", recordTimecode |-> "null",
     cpuUsage |-> "null", memoryUsage |-> "null", fps |-> "null"]

\* the snapshot returned from the catch block
ErrorSnapshot == [DisconnectedSnapshot EXCEPT !.currentScene = "ERROR"]

\* status.outputActive as the snapshot shows it
Flag(r) == IF r = "active" THEN "true" ELSE "false"

\* status.outputTimecode: a running output has a timecode, a stopped one an
\* empty one
OutputTimecode(r) == IF r = "active" THEN "00:00:10.000" ELSE ""

\* x || null
OrNull(x) == IF x = "" THEN "null" ELSE x

\* stats ? stats.field : null, with stats null when GetStats was rejected
StatsField(r, field) == IF r = "error" THEN "null" ELSE field

\* the snapshot built from the answers rs when all awaited calls answered
StatusSnapshot(rs) ==
    [connected |-> "true", streaming |-> Flag(rs.stream), recording |-> Flag(rs.record),
     currentScene |-> rs.scene, availableScenes |-> SceneList(rs.list),
     streamTimecode |-> OrNull(OutputTimecode(rs.stream)),
     recordTimecode |-> OrNull(OutputTimecode(rs.record)),
     cpuUsage |-> StatsField(rs.stats, "cpuUsage"),
     memoryUsage |-> StatsField(rs.stats, "memoryUsage"),
     fps |-> StatsField(rs.stats, "activeFps")]

StatusShortCutNever == FALSE

StatusShortCutAlways == TRUE

\* if (!this.connected) return { connected: false, ... }
StatusShortCut == ~connected

SubQueryFailedNever(rs) == FALSE

SubQueryFailedAny(rs) == "error" \in {rs.stream, rs.record, rs.scene, rs.list, rs.stats}

\* Promise.all rejects: a call without a catch of its own was rejected
SubQueryFailed(rs) == "error" \in {rs.stream, rs.record, rs.scene, rs.list}

\* try { ... return snapshot } catch { return error snapshot }
StatusResult(rs) == IF SubQueryFailed(rs) THEN ErrorSnapshot ELSE StatusSnapshot(rs)

\* a caller invokes getStatus(): up to the await of Promise.all
StatusEnter(t) ==
    /\ t \in Callers
    /\ pc[t] = "idle"
    /\ IF StatusShortCut
       THEN /\ ev' = [E0 EXCEPT !.task = t, !.act = "getStatus", !.op = "getStatus",
                                !.out = Return("snapshot"),
                                !.snap = DisconnectedSnapshot]
            /\ UNCHANGED <<pc, kind>>
       ELSE /\ pc' = [pc EXCEPT ![t] = "status"]
            /\ kind' = [kind EXCEPT ![t] = "getStatus"]
            /\ ev' = [E0 EXCEPT !.task = t, !.act = "getStatus", !.op = "getStatus",
                                !.rpc = "Promise.all"]
    /\ UNCHANGED <<connVars, SAFE_MODE, authFailed, closedByCaller, commandQueue, arg,
                   prev, idx, order, hs, soft, slept>>

\* the same, whatever the controller is doing
GetStatusCall(t) ==
    /\ StatusEnter(t)
    /\ UNCHANGED ctlVars

\* Promise.all of t settles, fulfilled with the answers rs or rejected with
\* the first rejection among them, and getStatus() runs to its return
StatusResume(t, rs) ==
    /\ pc[t] = "status"
    /\ rs \in StatusReplies
    /\ pc' = [pc EXCEPT ![t] = "idle"]
    /\ kind' = [kind EXCEPT ![t] = "none"]
    /\ ev' = [E0 EXCEPT !.task = t, !.act = "statusReturn", !.op = "getStatus",
                        !.of = "Promise.all", !.all = rs,
                        !.out = Return("snapshot"), !.snap = StatusResult(rs)]
    /\ UNCHANGED <<connVars, SAFE_MODE, authFailed, closedByCaller, commandQueue, arg,
                   prev, idx, order, hs, soft, slept>>

\* the same, whatever the controller is doing
StatusReturn(t, rs) ==
    /\ StatusResume(t, rs)
    /\ UNCHANGED ctlVars

\* ------------------------------------------- the controller at the far end

\* Each this.obs.call(...) is a request of its own: the controller answers it
\* from the state it is in at some moment between the call and the answer,
\* and a command takes effect at that moment.

\* the answer of a controller in state c to the request m
Answer(c, m) ==
    CASE m = "GetStreamStatus" -> IF c.streaming THEN "active" ELSE "inactive"
      [] m = "GetRecordStatus" -> IF c.recording THEN "active" ELSE "inactive"
      [] m = "GetCurrentProgramScene" -> c.scene
      [] m = "GetSceneList" -> "scenes"
      [] OTHER -> "ok"

\* the state of a controller in state c after the request m with the name a
Effect(c, m, a) ==
    CASE m = "StartStream" -> [c EXCEPT !.streaming = TRUE]
      [] m = "StopStream" -> [c EXCEPT !.streaming = FALSE]
      [] m = "StartRecord" -> [c EXCEPT !.recording = TRUE]
      [] m = "StopRecord" -> [c EXCEPT !.recording = FALSE]
      [] m = "SetCurrentProgramScene" -> [c EXCEPT !.scene = a]
      [] OTHER -> c

\* the requests of the getStatus() batch
StatusMethod ==
    [stream |-> "GetStreamStatus", record |-> "GetRecordStatus",
     scene |-> "GetCurrentProgramScene", list |-> "GetSceneList", stats |-> "GetStats"]

\* the controller serves the pending request of task t, whose operation
\* resumes with the answer
Serve(t) ==
    /\ pc[t] \in RpcMethods
    /\ Resume(t, Answer(ctl, pc[t]))
    /\ ctl' = Effect(ctl, pc[t], arg[t])
    /\ seen' = [q \in Tasks |-> IF pc[q] = "status" THEN seen[q] \cup {ctl'} ELSE seen[q]]
    /\ UNCHANGED got

\* a caller invokes getStatus(), which issues its batch to the controller
StatusIssue(t) ==
    /\ StatusEnter(t)
    /\ seen' = [seen EXCEPT ![t] = IF StatusShortCut THEN {} ELSE {ctl}]
    /\ UNCHANGED <<ctl, got>>

\* the controller serves request q of the batch of task t
StatusServe(t, q) ==
    /\ pc[t] = "status"
    /\ got[t][q] = "none"
    /\ got' = [got EXCEPT ![t][q] = Answer(ctl, StatusMethod[q])]
    /\ ev' = [E0 EXCEPT !.act = "serve", !.of = StatusMethod[q],
                        !.in = Answer(ctl, StatusMethod[q])]
    /\ UNCHANGED <<connVars, opVars, SAFE_MODE, authFailed, closedByCaller, pc, hs, soft,
                   slept, ctl, seen>>

\* every request of the batch of task t is answered: Promise.all fulfils and
\* getStatus() runs to its return
StatusSettle(t) ==
    /\ \A q \in DOMAIN StatusMethod : got[t][q] # "none"
    /\ StatusResume(t, got[t])
    /\ got' = [got EXCEPT ![t] = NoReplies]
    /\ seen' = [seen EXCEPT ![t] = {}]
    /\ UNCHANGED ctl

\* ------------------------------------------------------ the specifications

\* the connection lifecycle: connect(), disconnect(), transport events,
\* timers; Math.random() yields the middle of its range
NextConn ==
    \/ \E t \in Callers : ConnectCall(t)
    \/ \E t \in Tasks : HandshakeOk(t)
    \/ \E t \in Tasks, m \in HandshakeErrors : HandshakeFail(t, m, 50)
    \/ \E t \in Tasks : SleepDone(t)
    \/ ConnectionClosed
    \/ ConnectionError
    \/ \E b \in BgTasks : TimerFire(b)
    \/ \E t \in Callers : DisconnectCall(t)
    \/ \E t \in Callers : DisconnectDone(t)

\* the operations, over a controller whose handshakes succeed and a host
\* whose first task owns connect(): transport events drop the session, and
\* connect() or a reconnect timer brings it back, at any point of an operation
NextOps ==
    \/ ConnectCall(1)
    \/ \E t \in Tasks : HandshakeOk(t)
    \/ ConnectionClosed
    \/ ConnectionError
    \/ \E b \in BgTasks : TimerFire(b)
    \/ \E t \in Callers : Call(t)
    \/ \E t \in Callers, k \in Serialized : \E a \in Args(k) : Begin(t, k, a)
    \/ \E t \in Callers, k \in Reads : ReadCall(t, k)
    \/ \E t \in Callers : \E r \in Replies(pc[t]) : RpcReturn(t, r)

\* getStatus() over a session that is opened, dropped and closed
NextStatus ==
    \/ ConnectCall(1)
    \/ HandshakeOk(1)
    \/ ConnectionError
    \/ DisconnectCall(1)
    \/ DisconnectDone(1)
    \/ \E t \in Callers : GetStatusCall(t)
    \/ \E t \in Callers, rs \in StatusReplies : StatusReturn(t, rs)

\* the read-only queries next to setScene() calls that go through the
\* serializer, on a session that is opened once and stays up
NextReads ==
    \/ ConnectCall(1)
    \/ \E t \in Tasks : HandshakeOk(t)
    \/ \E t \in Callers : Call(t)
    \/ \E t \in Callers : \E a \in Args("setScene") : Begin(t, "setScene", a)
    \/ \E t \in Callers, k \in Reads : ReadCall(t, k)
    \/ \E t \in Callers : \E r \in Replies(pc[t]) : RpcReturn(t, r)
    \/ \E t \in Callers : GetStatusCall(t)
    \/ \E t \in Callers, rs \in StatusReplies : StatusReturn(t, rs)

\* connect() and its retry loop over every value of Math.random()
\* the operations that command the controller
CtlOps == {"startStream", "startRecording", "setScene"}

\* the arguments that leave "Main", the scene of Studio0, on program
StayArgs(k) == Args(k) \ {"BRB"}

\* operations and getStatus() against the controller: caller 1 connects and
\* asks for the status, the other callers command the controller
NextCtl ==
    \/ ConnectCall(1)
    \/ HandshakeOk(1)
    \/ \E t \in Callers \ {1} : Call(t)
    \/ \E t \in Callers \ {1}, k \in CtlOps : \E a \in StayArgs(k) : Begin(t, k, a)
    \/ \E t \in Callers \ {1} : Serve(t)
    \/ StatusIssue(1)
    \/ \E q \in DOMAIN StatusMethod : StatusServe(1, q)
    \/ StatusSettle(1)

\* the operations of the safe-mode gate: the start and the scene switch
GateOps == {"startStream", "setScene"}

\* startStream() and setScene() of all callers against the controller, after
\* a connect()
NextGate ==
    \/ ConnectCall(1)
    \/ HandshakeOk(1)
    \/ \E t \in Callers : Call(t)
    \/ \E t \in Callers, k \in GateOps : \E a \in Args(k) : Begin(t, k, a)
    \/ \E t \in Callers : Serve(t)

\* every operation of the client, around a connect() of caller 1 whose
\* handshakes fail or succeed: the serialized operations and the scene reads
\* by every caller, getStatus() by caller 1
NextLib ==
    \/ ConnectCall(1)
    \/ HandshakeOk(1)
    \/ \E m \in HandshakeErrors : HandshakeFail(1, m, 50)
    \/ SleepDone(1)
    \/ \E t \in Callers : Call(t)
    \/ \E t \in Callers, k \in Serialized : \E a \in Args(k) : Begin(t, k, a)
    \/ \E t \in Callers, k \in Reads : ReadCall(t, k)
    \/ \E t \in Callers : \E r \in Replies(pc[t]) : RpcReturn(t, r)
    \/ GetStatusCall(1)
    \/ \E rs \in StatusReplies : StatusReturn(1, rs)

NextBackoff ==
    \/ \E t \in Callers : ConnectCall(t)
    \/ \E t \in Callers : HandshakeOk(t)
    \/ \E t \in Callers, m \in HandshakeErrors, rnd \in Randoms : HandshakeFail(t, m, rnd)
    \/ \E t \in Callers : SleepDone(t)

Next ==
    NextBackoff \/ NextConn \/ NextOps \/ NextStatus \/ NextReads \/ NextCtl \/ NextGate
      \/ NextLib

Spec == Init /\ [][Next]_vars

SpecConn == Init /\ [][NextConn]_vars

\* a timer that was set fires: setTimeout runs its callback after 3 s
FairConn == SpecConn /\ \A b \in BgTasks : WF_vars(TimerFire(b))

SpecCtl == Init /\ [][NextCtl]_vars

SpecGate == Init /\ [][NextGate]_vars

SpecLib == Init /\ [][NextLib]_vars

SpecBackoff == Init /\ [][NextBackoff]_vars

SpecOps == Init /\ [][NextOps]_vars

SpecStatus == Init /\ [][NextStatus]_vars

SpecReads == Init /\ [][NextReads]_vars

\* The serialized operations alone: callers invoke only operations that go
\* through serialize(), next to a connect(), a disconnect() and transport
\* errors; no reconnect timers.
NextSer ==
    \/ ConnectCall(1)
    \/ HandshakeOk(1)
    \/ ConnectionError
    \/ DisconnectCall(1)
    \/ DisconnectDone(1)
    \/ \E t \in Callers : Call(t)
    \/ \E t \in Callers, k \in Serialized : \E a \in Args(k) : Begin(t, k, a)
    \/ \E t \in Callers : \E r \in Replies(pc[t]) : RpcReturn(t, r)

\* The event loop runs every continuation that is ready, and the transport
\* answers every call it was given.
FairSer ==
    /\ Init /\ [][NextSer]_vars
    /\ \A t \in Callers : WF_vars(\E k \in Serialized : \E a \in Args(k) : Begin(t, k, a))
    /\ \A t \in Callers : WF_vars(\E r \in Replies(pc[t]) : RpcReturn(t, r))

\* ------------------------------------------------------------- properties

Executing(t) == kind[t] \in Serialized /\ pc[t] \in RpcMethods

\* C1: no two serialized operations execute at the same time, and whenever a
\* serialized operation issues an RPC no other serialized operation is
\* between its first RPC and its end: the RPC trace is never interleaved.
C1_NoInterleaving ==
    /\ Cardinality({t \in Callers : Executing(t)}) <= 1
    /\ (ev.rpc # "none" /\ ev.op \in Serialized)
          => \A q \in Callers \ {ev.task} : ~Executing(q)

\* a second RPC of an operation is issued while another operation is queued
C1_Witness ==
    /\ ev.act = "rpcReturn" /\ ev.rpc # "none" /\ ev.op \in Serialized
    /\ \E q \in Callers : pc[q] = "queued" /\ prev[q] = ev.task

\* C2: serialized operations begin in the order of their serialize() calls:
\* the operation that executes, or begins, is the oldest one not completed.
C2_Fifo ==
    /\ [](\A t \in Callers : Executing(t) => (order # << >> /\ Head(order) = t))
    /\ [][ev'.act = "begin" => (order # << >> /\ Head(order) = ev'.task)]_vars

\* the oldest operation begins while a later one waits for it
C2_Witness ==
    /\ ev.act = "begin" /\ ev.rpc # "none"
    /\ Len(order) >= 2 /\ Head(order) = ev.task
    /\ pc[order[2]] = "queued" /\ prev[order[2]] = ev.task

\* C3: every submitted operation eventually begins, also behind an operation
\* that threw, and a throw of one operation leaves the others as they were.
C3_ReleaseOnFailure ==
    /\ \A t \in Callers : (pc[t] = "queued") ~> (pc[t] # "queued")
    /\ [][(ev'.out.st = "throw" /\ ev'.op \in Serialized)
            => \A q \in Callers \ {ev'.task} :
                  pc'[q] = pc[q] /\ kind'[q] = kind[q] /\ arg'[q] = arg[q]
                  /\ (prev'[q] = prev[q] \/ prev'[q] = 0)]_vars

\* an operation begins right behind one that threw
C3_Witness ==
    /\ ev.out.st = "throw" /\ ev.op \in Serialized
    /\ \E q \in Callers : pc[q] = "queued" /\ order # << >> /\ Head(order) = q

\* C4: a serialized operation or scene read that runs while the session is
\* not Connected throws NOT_CONNECTED at once: no RPC, no handshake, no
\* reconnect timer, no change of the connection state, nothing left pending.
C4_FailFast ==
    [][(ev'.act \in {"begin", "read"} /\ ~connected)
          => /\ ev'.out = Throw("NOT_CONNECTED", "none")
             /\ ev'.rpc = "none" /\ ~ev'.hsk
             /\ pc'[ev'.task] = "idle"
             /\ \A b \in BgTasks : pc'[b] = pc[b]
             /\ UNCHANGED <<connected, connecting, retryCount>>]_vars

\* an operation failed fast while the reconnect timer of a closed event is pending
C4_Witness ==
    /\ ev.act = "begin" /\ ev.out.val = "NOT_CONNECTED"
    /\ \E b \in BgTasks : pc[b] = "timer"

\* the message of a handshake rejected for a wrong shared secret
AuthClass(m) == m = "Authentication failed"

\* C5: a handshake that fails for a wrong shared secret ends its connect()
\* in that very step with AUTH_FAILED: no sleep, no further handshake; when
\* no earlier failure of the invocation was retried, the invocation has
\* issued exactly one handshake.
C5_AuthFailsAtOnce ==
    [][(ev'.act = "handshakeFail" /\ AuthClass(ev'.in))
          => /\ ev'.out = Throw("AUTH_FAILED", "none")
             /\ ~ev'.hsk
             /\ pc'[ev'.task] = "idle"
             /\ (soft[ev'.task] = 0 => (hs[ev'.task] = 1 /\ ev'.n = 1))]_vars

\* connect() has thrown AUTH_FAILED after its one and only handshake
C5_Witness ==
    /\ ev.act = "handshakeFail" /\ AuthClass(ev.in)
    /\ ev.out.val = "AUTH_FAILED" /\ ev.n = 1

\* C6: a connect() that gets past its guard and whose handshakes all fail
\* with non-authentication errors ends by throwing CONNECT_EXHAUSTED with
\* the last error, after at most maxRetries retries.
C6_ExhaustedAfterRetries ==
    [][(/\ ev'.op = "connect" /\ ev'.out.st # "none"
        /\ ev'.act # "handshakeOk"
        /\ ~(ev'.act \in {"connect", "timer"} /\ ConnectGuard)
        /\ ~AuthClass(ev'.in))
          => /\ ev'.in \in HandshakeErrors
             /\ ev'.out = Throw("CONNECT_EXHAUSTED", ev'.in)
             /\ ev'.n \in 1..(maxRetries + 1)]_vars

\* C7: connect() called while connected or while a connect is in progress
\* returns at once: no handshake, and connected, connecting and retryCount
\* are left as they were.
C7_ConnectNoOp ==
    [][(ev'.act \in {"connect", "timer"} /\ (connected \/ connecting))
          => /\ ev'.out = Return("void")
             /\ ~ev'.hsk
             /\ pc'[ev'.task] = "idle"
             /\ UNCHANGED <<connected, connecting, retryCount>>]_vars

\* connect() has returned at once while the retry loop of another task runs
C7_Witness ==
    /\ ev.act = "connect" /\ ev.out = Return("void")
    /\ connecting
    /\ \E t \in Tasks \ {ev.task} : pc[t] \in {"handshake", "sleep"}

\* C8: connected holds exactly when the last handshake succeeded and no
\* ConnectionClosed, ConnectionError or disconnect() came after it.
C8_ConnectedIffLinkUp == connected <=> (link = "up")

\* a transport error has just ended a session that a handshake had opened
C8_Witness ==
    /\ ev.act = "ConnectionError" /\ ~connected /\ link = "down"
    /\ \E t \in Callers : pc[t] = "disconnecting"

\* C9: the retry counter stays within 0..maxRetries.
C9_RetryBounded == retryCount \in 0..maxRetries

\* C10: ConnectionClosed clears connected; it sets one reconnect timer when
\* connecting is false and none when it is true; a timer that ends does so
\* by running connect(); what a background connect() throws reaches no caller.
C10_ClosedSchedulesReconnect ==
    /\ [][ev'.act = "ConnectionClosed"
            => /\ ~connected'
               /\ connecting => pc' = pc
               /\ ~connecting => \E b \in BgTasks :
                                    /\ pc[b] = "idle"
                                    /\ pc' = [pc EXCEPT ![b] = "timer"]]_vars
    /\ [][\A b \in BgTasks : (pc[b] = "timer" /\ pc'[b] # "timer")
            => (ev'.task = b /\ ev'.act = "timer" /\ ev'.op = "connect")]_vars
    /\ [][(ev'.task \in BgTasks /\ ev'.out.st = "throw")
            => \A c \in Callers : pc'[c] = pc[c] /\ hs'[c] = hs[c]]_vars

\* the connect() of a reconnect timer has thrown
C10_Witness ==
    /\ ev.task \in BgTasks /\ ev.out.st = "throw"
    /\ \A c \in Callers : pc[c] = "idle"

\* C11: once a connect() has thrown AUTH_FAILED, a handshake is issued only
\* by a connect() that a caller invokes: not by a retry loop and not by the
\* connect() of a reconnect timer.
C11_NoAutoRetryAfterAuth ==
    [][(authFailed /\ ev'.hsk) => ev'.act = "connect"]_vars

\* the code has just consumed reply r to call m of operation k
Got(k, m) == ev'.act = "rpcReturn" /\ ev'.op = k /\ ev'.of = m

\* the invocation of the step ended by returning { success: flag, ... }
Ended(flag) ==
    /\ ev'.out.st = "return" /\ ev'.out.success = flag
    /\ ev'.rpc = "none" /\ pc'[ev'.task] = "idle"

\* C12: in safe mode, a startStream() whose scene read answers a scene outside
\* the allow-list returns success=false, its message naming that scene and
\* the allow-list; StartStream and the status query before it are issued only
\* behind a scene read that answered an allowed scene.
C12_SafeModeRefusal ==
    /\ [][(SAFE_MODE /\ Got("startStream", "GetCurrentProgramScene")
           /\ ev'.in \notin {"StartingSoon", "Main", "error"})
            => /\ Ended("false")
               /\ ev'.out.about = <<ev'.in>>
               /\ ev'.out.listed = <<"StartingSoon", "Main">>]_vars
    /\ [][(SAFE_MODE /\ ev'.rpc = "GetStreamStatus" /\ ev'.op = "startStream")
            => (ev'.of = "GetCurrentProgramScene"
                /\ ev'.in \in {"StartingSoon", "Main"})]_vars
    /\ [][ev'.rpc = "StartStream"
            => (ev'.op = "startStream" /\ ev'.of = "GetStreamStatus")]_vars

\* startStream() was refused in safe mode because the scene is BRB
C12_Witness ==
    /\ SAFE_MODE /\ ev.op = "startStream" /\ ev.of = "GetCurrentProgramScene"
    /\ ev.in = "BRB" /\ ev.out.success = "false" /\ ev.out.about = <<"BRB">>

\* C13: a startStream() whose status query reports the stream active returns
\* {success: true, message: "Stream already active"} and ends there;
\* StartStream is issued only behind a status query that answered inactive.
C13_AlreadyStreaming ==
    /\ [][(Got("startStream", "GetStreamStatus") /\ ev'.in = "active")
            => /\ Ended("true")
               /\ ev'.out.val = "Stream already active"]_vars
    /\ [][ev'.rpc = "StartStream"
            => (ev'.of = "GetStreamStatus" /\ ev'.in = "inactive")]_vars

\* in safe mode, on an allowed scene, startStream() found the stream active
C13_Witness ==
    /\ ev.op = "startStream" /\ ev.of = "GetStreamStatus" /\ ev.in = "active"
    /\ ev.out.val = "Stream already active" /\ ev.out.success = "true"

\* the status query, the changing call and the target state of an operation
C14_Shape ==
    [stopStream |-> [query |-> "GetStreamStatus", change |-> "StopStream",
                     target |-> "inactive"],
     startRecording |-> [query |-> "GetRecordStatus", change |-> "StartRecord",
                         target |-> "active"],
     stopRecording |-> [query |-> "GetRecordStatus", change |-> "StopRecord",
                        target |-> "inactive"]]

\* C14: stopStream(), startRecording() and stopRecording() first issue their
\* status query; they issue their Stop/Start call only on an answer that
\* differs from the target state, and on an answer equal to the target state
\* they return success=true with no further call.
C14_StatusFirst ==
    /\ [][\A k \in DOMAIN C14_Shape :
            (ev'.act = "begin" /\ ev'.op = k /\ ev'.out.st = "none")
               => ev'.rpc = C14_Shape[k].query]_vars
    /\ [][\A k \in DOMAIN C14_Shape :
            ev'.rpc = C14_Shape[k].change
               => /\ Got(k, C14_Shape[k].query)
                  /\ ev'.in \in {"active", "inactive"} \ {C14_Shape[k].target}]_vars
    /\ [][\A k \in DOMAIN C14_Shape :
            (Got(k, C14_Shape[k].query) /\ ev'.in = C14_Shape[k].target)
               => Ended("true")]_vars

\* stopRecording() found the recording already stopped
C14_Witness ==
    /\ ev.op = "stopRecording" /\ ev.of = "GetRecordStatus" /\ ev.in = "inactive"
    /\ ev.out.success = "true" /\ ev.rpc = "none"

\* C15: a setScene(name) whose scene list, fetched in the operation, lacks
\* the name returns success=false with the fetched scenes in its message and
\* does not throw; SetCurrentProgramScene is issued only for a name that the
\* fetched list holds.
C15_UnknownScene ==
    /\ [][(Got("setScene", "GetSceneList") /\ ev'.in # "error"
           /\ \A i \in DOMAIN SceneList(ev'.in) :
                 SceneList(ev'.in)[i] # arg[ev'.task])
            => /\ Ended("false")
               /\ ev'.out.about = <<arg[ev'.task]>>
               /\ ev'.out.listed = SceneList(ev'.in)]_vars
    /\ [][ev'.rpc = "SetCurrentProgramScene"
            => /\ Got("setScene", "GetSceneList")
               /\ ev'.par = arg[ev'.task]
               /\ \E i \in DOMAIN SceneList(ev'.in) :
                     SceneList(ev'.in)[i] = arg[ev'.task]]_vars

\* setScene("Main") was refused because the controller only lists BRB
C15_Witness ==
    /\ ev.op = "setScene" /\ ev.in = "fewScenes" /\ ev.out.success = "false"
    /\ ev.out.about = <<"Main">> /\ ev.out.listed = <<"BRB">>

\* the names setMicMute(mute, a) is to try, in order
Tried(a) ==
    IF a = "none"
    THEN <<"Mic/Aux", "Blue Yeti", "Microphone", "Mic", "Audio Input Capture",
           "Desktop Audio">>
    ELSE <<a>>

\* C16: setMicMute() issues SetInputMute for the first name of its list, after
\* each rejection for the next name, and after an accepted call it issues
\* nothing more and returns success=true reporting the accepted name.
C16_MicOrder ==
    /\ [][(ev'.act = "begin" /\ ev'.op = "setMicMute" /\ ev'.out.st = "none")
            => /\ ev'.rpc = "SetInputMute"
               /\ idx'[ev'.task] = 1
               /\ ev'.par = Tried(arg'[ev'.task])[1]]_vars
    /\ [][(Got("setMicMute", "SetInputMute") /\ ev'.in # "ok")
            => IF idx[ev'.task] < Len(Tried(arg[ev'.task]))
               THEN /\ ev'.rpc = "SetInputMute"
                    /\ idx'[ev'.task] = idx[ev'.task] + 1
                    /\ ev'.par = Tried(arg[ev'.task])[idx[ev'.task] + 1]
               ELSE ev'.rpc # "SetInputMute"]_vars
    /\ [][(Got("setMicMute", "SetInputMute") /\ ev'.in = "ok")
            => /\ Ended("true")
               /\ ev'.out.about = <<Tried(arg[ev'.task])[idx[ev'.task]]>>]_vars
    /\ [][ev'.rpc = "SetInputMute" => ev'.op = "setMicMute"]_vars

\* the third name of the fallback list was accepted after two rejections
C16_Witness ==
    /\ ev.op = "setMicMute" /\ ev.of = "SetInputMute" /\ ev.in = "ok"
    /\ ev.out.success = "true" /\ ev.out.about = <<"Microphone">>

\* C17 as stated: a setMicMute() whose candidates were all rejected returns
\* success=false with the names tried and the controller's input names, and
\* does not throw.
C17_AllRejectedNoThrow ==
    [][Got("setMicMute", "GetInputList")
         => /\ Ended("false")
            /\ ev'.out.about = Tried(arg[ev'.task])
            /\ ev'.out.listed = InputNames]_vars

\* C17 amended: after the last candidate was rejected setMicMute() issues one
\* GetInputList; when that call answers, it returns success=false with the
\* names tried and the names answered; when that call is rejected, its error
\* is thrown to the caller.
C17_AllRejectedListsInputs ==
    /\ [][(Got("setMicMute", "SetInputMute") /\ ev'.in # "ok"
           /\ idx[ev'.task] = Len(Tried(arg[ev'.task])))
            => ev'.rpc = "GetInputList"]_vars
    /\ [][ev'.rpc = "GetInputList"
            => /\ Got("setMicMute", "SetInputMute") /\ ev'.in # "ok"
               /\ idx[ev'.task] = Len(Tried(arg[ev'.task]))]_vars
    /\ [][(Got("setMicMute", "GetInputList") /\ ev'.in # "error")
            => /\ Ended("false")
               /\ ev'.out.val = "MIC_NOT_FOUND"
               /\ ev'.out.about = Tried(arg[ev'.task])
               /\ ev'.out.listed = InputNames]_vars
    /\ [][(Got("setMicMute", "GetInputList") /\ ev'.in = "error")
            => /\ ev'.out.st = "throw" /\ ev'.out.err = ev'.in
               /\ ev'.rpc = "none"]_vars

\* all six fallback names were rejected and the inputs were listed
C17_Witness ==
    /\ ev.op = "setMicMute" /\ ev.of = "GetInputList" /\ ev.in = "inputs"
    /\ ev.out.val = "MIC_NOT_FOUND" /\ Len(ev.out.about) = 6

\* C18: SetSceneItemEnabled is issued only behind a GetSceneItemId that
\* answered; a not-found rejection of either call returns success=false
\* SOURCE_NOT_FOUND; any other rejection is thrown to the caller as it came.
C18_SourceVisibility ==
    /\ [][ev'.rpc = "SetSceneItemEnabled"
            => (Got("setSourceVisibility", "GetSceneItemId") /\ ev'.in = "ok")]_vars
    /\ [][(ev'.act = "rpcReturn" /\ ev'.op = "setSourceVisibility"
           /\ ev'.in \in {"NotFound", "code 600"})
            => (Ended("false") /\ ev'.out.val = "SOURCE_NOT_FOUND")]_vars
    /\ [][(ev'.act = "rpcReturn" /\ ev'.op = "setSourceVisibility"
           /\ ev'.in \notin {"ok", "NotFound", "code 600"})
            => /\ ev'.out.st = "throw" /\ ev'.out.err = ev'.in
               /\ ev'.rpc = "none" /\ pc'[ev'.task] = "idle"]_vars

\* SetSceneItemEnabled failed with an error that is not a not-found one
C18_Witness ==
    /\ ev.op = "setSourceVisibility" /\ ev.of = "SetSceneItemEnabled"
    /\ ev.in = "error" /\ ev.out.st = "throw" /\ ev.out.err = "error"

\* C19: getStatus() invoked while connected is false returns in that very
\* step a snapshot with connected=false and every optional field null; it
\* throws nothing, issues no call and leaves every task where it was.
C19_StatusWhenDisconnected ==
    [][(ev'.act = "getStatus" /\ ~connected)
         => /\ ev'.out.st = "return"
            /\ ev'.snap.connected = "false"
            /\ \A f \in {"streamTimecode", "recordTimecode", "cpuUsage",
                         "memoryUsage", "fps"} : ev'.snap[f] = "null"
            /\ ev'.rpc = "none" /\ ~ev'.hsk
            /\ pc' = pc]_vars

\* getStatus() answered at once, after the session dropped, while the
\* getStatus() of another task still waits for the controller
C19_Witness ==
    /\ ev.act = "getStatus" /\ ev.out.st = "return" /\ ev.snap.connected = "false"
    /\ \E q \in Callers \ {ev.task} : pc[q] = "status"

\* C20: no step of getStatus() throws; when the stream-status, record-status,
\* current-scene or scene-list call is rejected, getStatus() returns the
\* snapshot marked ERROR, with connected=false.
C20_StatusNeverThrows ==
    /\ [][ev'.op = "getStatus" => ev'.out.st # "throw"]_vars
    /\ [][ev'.act = "statusReturn" => ev'.out.st = "return"]_vars
    /\ [][(ev'.act = "statusReturn"
           /\ "error" \in {ev'.all.stream, ev'.all.record, ev'.all.scene, ev'.all.list})
            => /\ ev'.snap.currentScene = "ERROR"
               /\ ev'.snap.connected = "false"]_vars

\* only the scene-list call was rejected and the error snapshot came back
C20_Witness ==
    /\ ev.act = "statusReturn" /\ ev.all.list = "error"
    /\ ev.all.stream = "active" /\ ev.all.record = "inactive" /\ ev.all.scene = "Main"
    /\ ev.out.st = "return" /\ ev.snap.currentScene = "ERROR"

\* C21: when GetStats alone is rejected, getStatus() returns a snapshot with
\* connected=true whose cpuUsage, memoryUsage and fps are null and whose other
\* fields are what the other four calls answered (an empty timecode shows as
\* null).
C21_StatsBestEffort ==
    [][(/\ ev'.act = "statusReturn" /\ ev'.all.stats = "error"
        /\ "error" \notin {ev'.all.stream, ev'.all.record, ev'.all.scene, ev'.all.list})
         => /\ ev'.out.st = "return"
            /\ ev'.snap.connected = "true"
            /\ ev'.snap.cpuUsage = "null" /\ ev'.snap.memoryUsage = "null"
            /\ ev'.snap.fps = "null"
            /\ ev'.snap.streaming = (IF ev'.all.stream = "active" THEN "true" ELSE "false")
            /\ ev'.snap.recording = (IF ev'.all.record = "active" THEN "true" ELSE "false")
            /\ ev'.snap.currentScene = ev'.all.scene
            /\ ev'.snap.availableScenes = SceneList(ev'.all.list)
            /\ ev'.snap.streamTimecode =
                  (IF ev'.all.stream = "active" THEN "00:00:10.000" ELSE "null")
            /\ ev'.snap.recordTimecode =
                  (IF ev'.all.record = "active" THEN "00:00:10.000" ELSE "null")]_vars

\* GetStats was rejected while the stream was reported active on scene BRB
C21_Witness ==
    /\ ev.act = "statusReturn" /\ ev.all.stats = "error"
    /\ ev.all.stream = "active" /\ ev.all.scene = "BRB" /\ ev.all.list = "scenes"
    /\ ev.snap.connected = "true" /\ ev.snap.cpuUsage = "null"
    /\ ev.snap.streaming = "true" /\ ev.snap.currentScene = "BRB"

\* C24: disconnect() starts a teardown of the transport only when connected
\* holds, and its end leaves connected false; called when connected is false,
\* as right after a completed disconnect(), it returns at once with no
\* teardown and leaves the connection state as it was.
C24_DisconnectIdempotent ==
    /\ [][(ev'.act = "disconnect" /\ pc'[ev'.task] = "disconnecting") => connected]_vars
    /\ [][ev'.act = "disconnectDone" => (~connected' /\ ev'.out = Return("void"))]_vars
    /\ [][(ev'.act = "disconnect" /\ ~connected)
            => /\ ev'.out = Return("void")
               /\ pc' = pc
               /\ UNCHANGED <<connected, connecting, retryCount>>]_vars
    /\ [][(ev.act = "disconnectDone" /\ ev'.act = "disconnect")
            => (ev'.out = Return("void") /\ pc' = pc /\ ~connected')]_vars

\* disconnect() returned at once on a session that a transport event had
\* ended and whose reconnect timer is pending
C24_Witness ==
    /\ ev.act = "disconnect" /\ ev.out = Return("void") /\ ~connected
    /\ \E b \in BgTasks : pc[b] = "timer"

\* C25: a handshake that succeeds ends its connect() by a normal return with
\* connected true, connecting false and retryCount 0, whatever the number of
\* failed attempts before it.
C25_SuccessResets ==
    [][ev'.act = "handshakeOk"
         => /\ ev'.out = Return("void")
            /\ pc'[ev'.task] = "idle"
            /\ connected' /\ ~connecting' /\ retryCount' = 0]_vars

\* the fourth handshake of a connect() succeeded after three retried failures
C25_Witness ==
    /\ ev.act = "handshakeOk" /\ ev.n = 4
    /\ connected /\ ~connecting /\ retryCount = 0

\* C30: a connect() that finds the session neither connected nor connecting
\* issues a handshake, and a connect() that got past its guard returns
\* normally only with connected true.
C30_ConnectNeverReturnsDisconnected ==
    /\ [][(ev'.act \in {"connect", "timer"} /\ ~connected /\ ~connecting)
            => ev'.hsk]_vars
    /\ [][(/\ ev'.op = "connect" /\ ev'.out.st = "return"
           /\ ~(ev'.act \in {"connect", "timer"} /\ (connected \/ connecting)))
            => connected']_vars

\* C22: every RPC is issued while connected holds: the first call of an
\* operation as well as each later one.
C22_NoRpcWhenDisconnected ==
    [][ev'.rpc # "none" => connected]_vars

\* C29: whenever a transport event ends a session that was connected, the
\* connect() of a reconnect timer runs some time later.
C29_ReconnectEventually ==
    ev.drop ~> (ev.act = "timer" /\ ev.task \in BgTasks)

\* C26: getStatus(), getSceneList() and getCurrentScene() called on a
\* connected session issue their RPCs in the very step of the call, whatever
\* is executing or queued in the serializer, and no step of theirs touches
\* the serializer's queue.
C26_ReadsBypassSerializer ==
    /\ [][(ev'.act \in {"read", "getStatus"} /\ connected)
            => (ev'.rpc # "none" /\ pc'[ev'.task] \notin {"idle", "queued"})]_vars
    /\ [][ev'.op \in {"getStatus", "getSceneList", "getCurrentScene"}
            => UNCHANGED <<commandQueue, prev, order>>]_vars

\* getStatus() returned its snapshot while a setScene() was between two of
\* its RPCs
C26_Witness ==
    /\ ev.act = "statusReturn" /\ ev.out.st = "return" /\ ev.snap.connected = "true"
    /\ \E q \in Callers \ {ev.task} : Executing(q) /\ pc[q] = "SetCurrentProgramScene"

\* C27: the delay slept after the failure that makes the retry counter n is
\* min(1000 * 2^(n-1), 30000) ms times a factor in [0.7, 1.3], and within one
\* connect() each delay slept is at least the one slept before it.
C27_Backoff ==
    /\ [][(ev'.act = "handshakeFail" /\ pc'[ev'.task] = "sleep")
            => LET n == retryCount'
                   d == IF n <= 5 THEN 1000 * 2^(n - 1) ELSE 30000
               IN /\ n \in 1..maxRetries
                  /\ 70 * d <= 100 * slept'[ev'.task]
                  /\ 100 * slept'[ev'.task] <= 130 * d]_vars
    /\ [][(ev'.act = "handshakeFail" /\ pc'[ev'.task] = "sleep")
            => slept'[ev'.task] >= slept[ev'.task]]_vars

\* C28: a setScene(name) whose scene list holds the name issues
\* SetCurrentProgramScene for that name, whatever scene the controller has on
\* program, and issues it once: the call is issued at no other step of the
\* operation, and its answer ends the operation without a further call.
C28_AlwaysSwitches ==
    /\ [][(Got("setScene", "GetSceneList") /\ ev'.in # "error"
             /\ \E i \in DOMAIN SceneList(ev'.in) : SceneList(ev'.in)[i] = arg[ev'.task])
            => (ev'.rpc = "SetCurrentProgramScene" /\ ev'.par = arg[ev'.task]
                  /\ pc'[ev'.task] = "SetCurrentProgramScene")]_vars
    /\ [][ev'.rpc = "SetCurrentProgramScene" => Got("setScene", "GetSceneList")]_vars
    /\ [][Got("setScene", "SetCurrentProgramScene")
            => (ev'.rpc = "none" /\ ev'.out.st # "none" /\ pc'[ev'.task] = "idle")]_vars

\* setScene() has issued the switch to the scene that is on program already
C28_Witness ==
    /\ ev.act = "rpcReturn" /\ ev.op = "setScene" /\ ev.of = "GetSceneList"
    /\ ev.rpc = "SetCurrentProgramScene" /\ ev.par = ctl.scene

\* the snapshot snap shows the outputs and the program scene of a controller
\* in state c
Shows(snap, c) ==
    /\ snap.streaming = Flag(Answer(c, "GetStreamStatus"))
    /\ snap.recording = Flag(Answer(c, "GetRecordStatus"))
    /\ snap.currentScene = Answer(c, "GetCurrentProgramScene")
    /\ snap.availableScenes = SceneList(Answer(c, "GetSceneList"))

\* C23: the snapshot a getStatus() returns with connected true shows one of the
\* states the controller has been in between the issue of its calls and its
\* return.
C23_SnapshotOfOneState ==
    [][(ev'.act = "statusReturn" /\ ev'.snap.connected = "true")
         => \E c \in seen[ev'.task] : Shows(ev'.snap, c)]_vars

\* C31: connecting is true only while some connect() invocation is suspended
\* in its retry loop, at the handshake or at the sleep between two attempts.
C31_ConnectingOnlyInLoop ==
    connecting => \E t \in Tasks : pc[t] \in {"handshake", "sleep"}

\* C32: retryCount is 0 whenever connecting is false, and a connect() that
\* gets past its guard finds it 0.
C32_CounterZeroAtRest ==
    /\ [][~connecting' => retryCount' = 0]_vars
    /\ [][(ev'.act \in {"connect", "timer"} /\ ~ConnectGuard) => retryCount = 0]_vars

\* C33: once the teardown of a disconnect() has completed, and until a caller
\* invokes connect(), connected stays false and no handshake is issued.
C33_StaysDisconnected ==
    /\ [][closedByCaller' => ~connected']_vars
    /\ [][(closedByCaller /\ ev'.hsk) => ev'.act = "connect"]_vars

\* the tasks whose connect() invocation is suspended in the retry loop
InLoop == {t \in Tasks : pc[t] \in {"handshake", "sleep"}}

C35_StartOnlyOnSafeScene ==
    /\ [][(SAFE_MODE /\ ev'.rpc = "StartStream") => ctl'.scene \in SAFE_SCENES]_vars
    /\ [][(SAFE_MODE /\ ev'.act = "rpcReturn" /\ ev'.of = "StartStream")
            => ctl.scene \in SAFE_SCENES]_vars

\* in safe mode startStream() has issued StartStream while the invocation of
\* another caller waits in the serializer
C35_Witness ==
    /\ SAFE_MODE /\ ev.op = "startStream" /\ ev.rpc = "StartStream"
    /\ \E u \in Callers \ {ev.task} : pc[u] = "queued"

\* the steps that belong to operations: serialize(), the operation callbacks,
\* the direct reads and getStatus()
OperationSteps == {"call", "begin", "read", "rpcReturn", "getStatus", "statusReturn"}

\* C36: no step of an operation changes connected, connecting or retryCount,
\* whether the operation goes on, returns or throws.
C36_OperationsKeepConnectionState ==
    [][ev'.act \in OperationSteps
         => UNCHANGED <<connected, connecting, retryCount>>]_vars

\* an operation has thrown on a rejected call and the session is connected
\* as before
C36_Witness ==
    /\ ev.act = "rpcReturn" /\ ev.in = "error" /\ ev.out.st = "throw"
    /\ connected

====
